---- MODULE Spec2Model ----
(***************************************************************************)
(* The G-code to GX converter (GXWriter) of Orca_Gcode_to_GX.py (single    *)
(* extruder) and Orca_Gcode_to_Gx_DualExt.py (dual extruder).              *)
(*                                                                         *)
(* Text is a sequence of code points, a file a sequence of bytes (0..255). *)
(* One run of the script is a state machine: load_gcode, extract_metadata, *)
(* the thumbnail step of __init__, then save_gx split at the points where  *)
(* the file system is observable (encode, open of the temporary file, its  *)
(* write, shutil.move).                                                    *)
(***************************************************************************)
EXTENDS Integers, Sequences, FiniteSets, TLC

(***************************************************************************)
(* Bounds of the input documents.                                          *)
(***************************************************************************)
\* filler lines put in front of a tool-header document (0..MaxPad)
MaxPad == 11
\* lines drawn from ToolPool after the filler
MaxToolLines == 2
\* lines drawn from MetaPool
MaxMetaLines == 2
\* lines drawn from ThumbPool
MaxThumbLines == 4
\* byte units drawn from ByteUnits
MaxUnits == 3

(***************************************************************************)
(* Text of the program (code points).                                      *)
(***************************************************************************)
\* 'T0'
T0Prefix ==
    <<84,48>>
\* 'T0 ; Set primary extruder'   (no line terminator in the source)
T0Inserted ==
    <<84,48,32,59,32,83,101,116,32,112,114,105,109,97,114,121,32,101,120,116,
      114,117,100,101,114>>
\* 'T0 ; Set first extruder\n'
T0InsertedDual ==
    <<84,48,32,59,32,83,101,116,32,102,105,114,115,116,32,101,120,116,114,117,
      100,101,114,10>>
\* 'T1 ; Set second extruder\n'
T1InsertedDual ==
    <<84,49,32,59,32,83,101,116,32,115,101,99,111,110,100,32,101,120,116,114,
      117,100,101,114,10>>
\* '; Executable_black_start'
ExecutableStart ==
    <<59,32,69,120,101,99,117,116,97,98,108,101,95,98,108,97,99,107,95,115,
      116,97,114,116>>
\* '; estimated printing time (normal mode) ='
TimePrefix ==
    <<59,32,101,115,116,105,109,97,116,101,100,32,112,114,105,110,116,105,110,
      103,32,116,105,109,101,32,40,110,111,114,109,97,108,32,109,111,100,101,
      41,32,61>>
\* '; filament used [mm] ='
FilamentPrefix ==
    <<59,32,102,105,108,97,109,101,110,116,32,117,115,101,100,32,91,109,109,
      93,32,61>>
\* '; layer_height ='
LayerPrefix ==
    <<59,32,108,97,121,101,114,95,104,101,105,103,104,116,32,61>>
\* '; machine_max_speed_x ='
SpeedPrefix ==
    <<59,32,109,97,99,104,105,110,101,95,109,97,120,95,115,112,101,101,100,95,
      120,32,61>>
\* '; first_layer_bed_temperature ='
BedPrefix ==
    <<59,32,102,105,114,115,116,95,108,97,121,101,114,95,98,101,100,95,116,
      101,109,112,101,114,97,116,117,114,101,32,61>>
\* '; nozzle_temperature ='
NozzlePrefix ==
    <<59,32,110,111,122,122,108,101,95,116,101,109,112,101,114,97,116,117,114,
      101,32,61>>
\* 'thumbnail begin'
ThumbBegin ==
    <<116,104,117,109,98,110,97,105,108,32,98,101,103,105,110>>
\* 'thumbnail end'
ThumbEnd ==
    <<116,104,117,109,98,110,97,105,108,32,101,110,100>>
\* b"xgcode 1.0\n\0"
Signature ==
    <<120,103,99,111,100,101,32,49,46,48,10,0>>

(***************************************************************************)
(* Python's str operations, on sequences of code points.                   *)
(***************************************************************************)
\* the characters for which str.isspace() holds
Whitespace ==
    (9..13) \cup (28..32) \cup (8192..8202)
        \cup {133, 160, 5760, 8232, 8233, 8239, 8287, 12288}

IsSpace(c) ==
    c \in Whitespace

\* s.startswith(p)
StartsWith(s, p) ==
    /\ Len(p) <= Len(s)
    /\ SubSeq(s, 1, Len(p)) = p

\* sub in s
Contains(s, sub) ==
    \E i \in 1..(Len(s) - Len(sub) + 1) : SubSeq(s, i, i + Len(sub) - 1) = sub

\* s.lstrip(chars), chars a set of code points
LStripChars(s, chars) ==
    LET keep == {i \in 1..Len(s) : s[i] \notin chars}
    IN  IF keep = {} THEN <<>>
        ELSE SubSeq(s, CHOOSE i \in keep : \A j \in keep : i <= j, Len(s))

\* s.strip()
Strip(s) ==
    LET keep == {i \in 1..Len(s) : ~IsSpace(s[i])}
    IN  IF keep = {} THEN <<>>
        ELSE SubSeq(s, CHOOSE i \in keep : \A j \in keep : i <= j,
                       CHOOSE i \in keep : \A j \in keep : i >= j)

\* s.replace(chr(c), "")
Remove(s, c) ==
    SelectSeq(s, LAMBDA x : x # c)

\* s.split(chr(c)): the pieces between the occurrences of c, empty ones kept
RECURSIVE SplitOn(_, _)
SplitOn(s, c) ==
    LET at == {i \in 1..Len(s) : s[i] = c}
    IN  IF at = {} THEN <<s>>
        ELSE LET i == CHOOSE k \in at : \A j \in at : k <= j
             IN  <<SubSeq(s, 1, i - 1)>> \o SplitOn(SubSeq(s, i + 1, Len(s)), c)

\* s.split() of a string without leading white space
RECURSIVE SplitRuns(_)

\* s.split(): the maximal runs of non-space characters
SplitWs(s) ==
    SplitRuns(LStripChars(s, Whitespace))

SplitRuns(t) ==
    LET sp == {i \in 1..Len(t) : IsSpace(t[i])}
    IN  IF t = <<>> THEN <<>>
        ELSE IF sp = {} THEN <<t>>
        ELSE <<SubSeq(t, 1, (CHOOSE k \in sp : \A j \in sp : k <= j) - 1)>>
             \o SplitWs(SubSeq(t, CHOOSE k \in sp : \A j \in sp : k <= j, Len(t)))

\* "".join(lines)
RECURSIVE Join(_)
Join(lines) ==
    IF lines = <<>> THEN <<>> ELSE Head(lines) \o Join(Tail(lines))

\* list.insert(i, x) with Python's 0-based index i (clamped to the length)
ListInsert(l, i, x) ==
    LET k == IF i > Len(l) THEN Len(l) ELSE i
    IN  SubSeq(l, 1, k) \o <<x>> \o SubSeq(l, k + 1, Len(l))

(***************************************************************************)
(* int() and float() of a string.  The value of float(s) is kept as the    *)
(* decimal it denotes: [neg, mant, dec] is (-1)^neg * mant / 10^dec.  The  *)
(* grammar is the one of strings of digits, '.', '+' and '-' with white    *)
(* space around; exponents, underscores, inf and nan are not inputs of the *)
(* model.  A failed parse is the ValueError the program does not catch.    *)
(***************************************************************************)
IsDigits(s) ==
    /\ Len(s) > 0
    /\ \A i \in 1..Len(s) : s[i] \in 48..57

RECURSIVE DigitsValue(_)
DigitsValue(s) ==
    IF s = <<>> THEN 0
    ELSE 10 * DigitsValue(SubSeq(s, 1, Len(s) - 1)) + (s[Len(s)] - 48)

RECURSIVE Pow10(_)
Pow10(n) ==
    IF n = 0 THEN 1 ELSE 10 * Pow10(n - 1)

\* int() of the digits d, negated if neg
IntOfDigits(d, neg) ==
    IF IsDigits(d)
    THEN [ok |-> TRUE, val |-> IF neg THEN 0 - DigitsValue(d) ELSE DigitsValue(d)]
    ELSE [ok |-> FALSE, val |-> 0]

\* int() of a string without white space around: an optional sign, digits
IntOfStripped(t) ==
    IF Len(t) > 0 /\ t[1] \in {43, 45}
    THEN IntOfDigits(Tail(t), t[1] = 45)
    ELSE IntOfDigits(t, FALSE)

\* int(s)
ParseInt(s) ==
    IntOfStripped(Strip(s))

\* float() of the digits ip '.' fp, negated if neg
FloatOfDigits(ip, fp, neg) ==
    IF /\ ip \o fp # <<>>
       /\ \A i \in 1..Len(ip) : ip[i] \in 48..57
       /\ \A i \in 1..Len(fp) : fp[i] \in 48..57
    THEN [ok |-> TRUE, neg |-> neg, mant |-> DigitsValue(ip \o fp), dec |-> Len(fp)]
    ELSE [ok |-> FALSE, neg |-> FALSE, mant |-> 0, dec |-> 0]

\* float() of the pieces of an unsigned string around its '.'
FloatOfParts(parts, neg) ==
    IF Len(parts) = 1 THEN FloatOfDigits(parts[1], <<>>, neg)
    ELSE IF Len(parts) = 2 THEN FloatOfDigits(parts[1], parts[2], neg)
    ELSE [ok |-> FALSE, neg |-> FALSE, mant |-> 0, dec |-> 0]

\* float() of a string without white space around
FloatOfStripped(t) ==
    IF Len(t) > 0 /\ t[1] \in {43, 45}
    THEN FloatOfParts(SplitOn(Tail(t), 46), t[1] = 45)
    ELSE FloatOfParts(SplitOn(t, 46), FALSE)

\* float(s)
ParseFloat(s) ==
    FloatOfStripped(Strip(s))

\* int(f * k) for a parsed float f: truncation toward zero
IntOfFloat(f, k) ==
    IF f.neg THEN 0 - ((f.mant * k) \div Pow10(f.dec))
    ELSE (f.mant * k) \div Pow10(f.dec)

(***************************************************************************)
(* Reading the file: open(path, "r", encoding="utf-8", errors="ignore")    *)
(* and readlines().                                                        *)
(***************************************************************************)
\* the bytes that may follow lead byte c as its first continuation byte
FirstCont(c) ==
    IF c = 224 THEN 160..191
    ELSE IF c = 237 THEN 128..159
    ELSE IF c = 240 THEN 144..191
    ELSE IF c = 244 THEN 128..143
    ELSE 128..191

\* continuation bytes lead byte c needs (0: c is no lead byte)
ContNeeded(c) ==
    IF c \in 194..223 THEN 1
    ELSE IF c \in 224..239 THEN 2
    ELSE IF c \in 240..244 THEN 3
    ELSE 0

\* the valid continuation bytes following the lead byte at b[i], at most need
RECURSIVE ContFound(_, _, _, _)
ContFound(b, i, j, need) ==
    IF /\ j < need
       /\ i + 1 + j <= Len(b)
       /\ b[i + 1 + j] \in (IF j = 0 THEN FirstCont(b[i]) ELSE 128..191)
    THEN ContFound(b, i, j + 1, need)
    ELSE j

\* the code point of the sequence of 1 + n bytes at b[i]
CodePoint(b, i, n) ==
    IF n = 1 THEN (b[i] % 32) * 64 + (b[i + 1] % 64)
    ELSE IF n = 2
    THEN (b[i] % 16) * 4096 + (b[i + 1] % 64) * 64 + (b[i + 2] % 64)
    ELSE (b[i] % 8) * 262144 + (b[i + 1] % 64) * 4096
             + (b[i + 2] % 64) * 64 + (b[i + 3] % 64)

\* What bytes.decode("utf-8", errors="ignore") makes of the byte at b[i]: an
\* ASCII byte is its own character, a lead byte followed by all its
\* continuation bytes is their code point, and every other byte (a
\* continuation byte, a lead byte of a broken sequence, a byte that is never
\* valid) is dropped: -1.  No lead or ASCII byte is a continuation byte, so
\* what starts at b[i] does not depend on the bytes before it.
DecodedAt(b, i) ==
    LET need == ContNeeded(b[i])
    IN  IF b[i] < 128 THEN b[i]
        ELSE IF need > 0 /\ ContFound(b, i, 0, need) = need THEN CodePoint(b, i, need)
        ELSE 0 - 1

Utf8Decode(b) ==
    SelectSeq([i \in 1..Len(b) |-> DecodedAt(b, i)], LAMBDA c : c >= 0)

\* text mode with newline=None: "\r\n" and a lone "\r" are read as "\n"
UniversalNewlines(t) ==
    SelectSeq([i \in 1..Len(t) |->
                  IF t[i] = 13 THEN 10
                  ELSE IF t[i] = 10 /\ i > 1 /\ t[i - 1] = 13 THEN 0 - 1
                  ELSE t[i]],
              LAMBDA c : c >= 0)

\* readlines(): each line keeps its "\n"; the last line may have none
RECURSIVE SplitLines(_)
SplitLines(t) ==
    LET nl == {i \in 1..Len(t) : t[i] = 10}
    IN  IF t = <<>> THEN <<>>
        ELSE IF nl = {} THEN <<t>>
        ELSE LET i == CHOOSE k \in nl : \A j \in nl : k <= j
             IN  <<SubSeq(t, 1, i)>> \o SplitLines(SubSeq(t, i + 1, Len(t)))

\* file.readlines() of a file holding bytes b
readlines(b) ==
    SplitLines(UniversalNewlines(Utf8Decode(b)))

(***************************************************************************)
(* load_gcode: the tool-header normalization of each variant.              *)
(***************************************************************************)
\* the lines the single-extruder variant scans for 'T0'
ScanWindow == 10

\* Orca_Gcode_to_GX.py: T0 goes in front unless one of the first lines has it
NormalizeSingle(lines) ==
    IF \E i \in 1..Len(lines) : i <= ScanWindow /\ StartsWith(lines[i], T0Prefix)
    THEN lines
    ELSE ListInsert(lines, 0, T0Inserted)

\* MarkerIndex taking the last marker line instead of the first
MarkerIndexLast(lines) ==
    LET at == {i \in 1..Len(lines) : Strip(lines[i]) = ExecutableStart}
    IN  IF at = {} THEN 0 - 1
        ELSE (CHOOSE i \in at : \A j \in at : i >= j) - 1

\* 0-based index of the first line that is the executable-start marker, or -1
MarkerIndex(lines) ==
    LET at == {i \in 1..Len(lines) : Strip(lines[i]) = ExecutableStart}
    IN  IF at = {} THEN 0 - 1
        ELSE (CHOOSE i \in at : \A j \in at : i <= j) - 1

\* Orca_Gcode_to_Gx_DualExt.py: T0 and T1 after the first marker, then break
InsertAfter(lines, i) ==
    IF i < 0 THEN lines
    ELSE ListInsert(ListInsert(lines, i + 1, T0InsertedDual), i + 2, T1InsertedDual)

NormalizeDual(lines) ==
    InsertAfter(lines, MarkerIndex(lines))

(***************************************************************************)
(* extract_metadata.  The attributes of the writer are a record; a         *)
(* ValueError (an unparsable value) leaves the scan: "raised".             *)
(***************************************************************************)
\* the attributes __init__ sets before load_gcode (single extruder)
InitSingle ==
    [print_time |-> 0, filament_usage |-> 0, layer_height |-> 0,
     print_speed |-> 60, bed_temp |-> 0, print_temp |-> 0]

\* the attributes __init__ sets before load_gcode (dual extruder)
InitDual ==
    [print_time |-> 0, filament_usage |-> 0, filament_usage_left |-> 0,
     layer_height |-> 0, print_speed |-> 60, bed_temp |-> 0, print_temp |-> 0,
     print_temp_left |-> 0, multi_extruder_type |-> 1]

\* self.<attr> = v, creating the attribute when it is not there yet
SetAttr(m, attr, v) ==
    [a \in (DOMAIN m) \cup {attr} |-> IF a = attr THEN v ELSE m[a]]

\* line.split('=')[1].strip()
ValueOf(line) ==
    Strip(SplitOn(line, 61)[2])

\* the unit of a part of the printing time: 'h', 'm' or 's' (the first of
\* them the part holds), 0 if it holds none
UnitOf(chars) ==
    IF 104 \in chars THEN 104
    ELSE IF 109 \in chars THEN 109
    ELSE IF 115 \in chars THEN 115
    ELSE 0

\* h, m or s = the parsed number n; acc is [ok, h, m, s]
StoreUnit(acc, unit, n) ==
    IF ~n.ok THEN [acc EXCEPT !.ok = FALSE]
    ELSE IF unit = 104 THEN [acc EXCEPT !.h = n.val]
    ELSE IF unit = 109 THEN [acc EXCEPT !.m = n.val]
    ELSE [acc EXCEPT !.s = n.val]

\* one part: int(part.replace(unit, "")) goes to the unit's variable
TimePartOf(acc, part, unit) ==
    IF unit = 0 THEN acc ELSE StoreUnit(acc, unit, ParseInt(Remove(part, unit)))

\* the loop over time_parts
RECURSIVE TimeParts(_, _)
TimeParts(parts, acc) ==
    IF parts = <<>> \/ ~acc.ok THEN acc
    ELSE TimeParts(Tail(parts),
             TimePartOf(acc, Head(parts),
                        UnitOf({Head(parts)[i] : i \in 1..Len(Head(parts))})))

\* self.print_time = h * 3600 + m * 60 + s
StoreTime(m, t) ==
    IF t.ok
    THEN [raised |-> FALSE, m |-> [m EXCEPT !.print_time = t.h * 3600 + t.m * 60 + t.s]]
    ELSE [raised |-> TRUE, m |-> m]

\* the '; estimated printing time (normal mode) =' branch (both variants)
TimeLine(m, line) ==
    StoreTime(m, TimeParts(SplitWs(ValueOf(line)),
                           [ok |-> TRUE, h |-> 0, m |-> 0, s |-> 0]))

\* self.<attr> = int(f * k) for the parsed float f
StoreFloat(m, attr, f, k) ==
    IF f.ok THEN [raised |-> FALSE, m |-> SetAttr(m, attr, IntOfFloat(f, k))]
    ELSE [raised |-> TRUE, m |-> m]

\* self.<attr> = int(float(value) * k)
FloatField(m, attr, value, k) ==
    StoreFloat(m, attr, ParseFloat(value), k)

\* self.<attr> = n for the parsed int n
StoreInt(m, attr, n) ==
    IF n.ok THEN [raised |-> FALSE, m |-> SetAttr(m, attr, n.val)]
    ELSE [raised |-> TRUE, m |-> m]

\* self.<attr> = int(value)
IntField(m, attr, value) ==
    StoreInt(m, attr, ParseInt(value))

\* a later statement of a branch, not reached when an earlier one raised
ThenSet(r, attr, v) ==
    IF r.raised THEN r ELSE [raised |-> FALSE, m |-> SetAttr(r.m, attr, v)]

ThenFloatField(r, attr, value, k) ==
    IF r.raised THEN r ELSE FloatField(r.m, attr, value, k)

ThenIntField(r, attr, value) ==
    IF r.raised THEN r ELSE IntField(r.m, attr, value)

\* the '; filament used [mm] =' branch, single extruder
FilamentSingle(m, line) ==
    ThenSet(FloatField(m, "filament_usage", ValueOf(line), 1),
            "filament_usage_left", 0)

\* the if/else on len(values) of the dual-extruder filament branch
FilamentValues(m, values) ==
    IF Len(values) > 1
    THEN ThenFloatField(FloatField(m, "filament_usage", Strip(values[1]), 1),
                        "filament_usage_left", Strip(values[2]), 1)
    ELSE FloatField(m, "filament_usage", Strip(values[1]), 1)

\* the '; filament used [mm] =' branch, dual extruder
FilamentDual(m, line) ==
    FilamentValues(m, SplitOn(ValueOf(line), 44))

\* print_temp and, if there is a second value, print_temp_left
NozzleTemps(m, temps) ==
    IF Len(temps) > 1
    THEN ThenIntField(IntField(m, "print_temp", temps[1]), "print_temp_left", temps[2])
    ELSE IntField(m, "print_temp", temps[1])

\* the '; nozzle_temperature =' branch, dual extruder
NozzleDual(m, line) ==
    NozzleTemps(m, SplitOn(ValueOf(line), 44))

\* one turn of the loop of extract_metadata
MetadataLine(v, m, line) ==
    IF StartsWith(line, TimePrefix) THEN TimeLine(m, line)
    ELSE IF StartsWith(line, FilamentPrefix)
    THEN IF v = "single" THEN FilamentSingle(m, line) ELSE FilamentDual(m, line)
    ELSE IF StartsWith(line, LayerPrefix)
    THEN FloatField(m, "layer_height", ValueOf(line), 1000)
    ELSE IF StartsWith(line, SpeedPrefix)
    THEN IntField(m, "print_speed", ValueOf(line))
    ELSE IF StartsWith(line, BedPrefix)
    THEN IntField(m, "bed_temp", ValueOf(line))
    ELSE IF StartsWith(line, NozzlePrefix)
    THEN IF v = "single" THEN IntField(m, "print_temp", ValueOf(line))
         ELSE NozzleDual(m, line)
    ELSE [raised |-> FALSE, m |-> m]

\* the loop of extract_metadata over self.gcode, left at the first ValueError
RECURSIVE ScanMetadata(_, _, _)

\* the rest of the loop after a turn with result r
ScanRest(v, r, rest) ==
    IF r.raised THEN r ELSE ScanMetadata(v, r.m, rest)

ScanMetadata(v, m, lines) ==
    IF lines = <<>> THEN [raised |-> FALSE, m |-> m]
    ELSE ScanRest(v, MetadataLine(v, m, Head(lines)), Tail(lines))

(***************************************************************************)
(* The thumbnail.  The image codec (base64.b64decode, PIL) is outside the  *)
(* program: of a payload the model keeps only whether the codec accepts it *)
(* (here: it starts with the base64 of the PNG signature) and which        *)
(* payload the bitmap was made of.  A bitmap is [kind, payload]; kind      *)
(* "none" is Python's None.                                                *)
(***************************************************************************)
\* 'iVBO', the base64 text every PNG file starts with
PngMagic64 ==
    <<105,86,66,79>>

NoBmp ==
    [kind |-> "none", payload |-> <<>>]

\* CollectBase64 without the break at the end marker: the scan goes on
RECURSIVE CollectBase64NoBreak(_, _, _)
CollectBase64NoBreak(lines, inside, acc) ==
    IF lines = <<>> THEN acc
    ELSE LET line == Head(lines)
             begin == Contains(line, ThumbBegin)
             end == ~begin /\ Contains(line, ThumbEnd)
         IN  CollectBase64NoBreak(Tail(lines), (inside \/ begin) /\ ~end,
                 IF ~begin /\ ~end /\ inside
                 THEN acc \o LStripChars(Strip(line), {59, 32})
                 ELSE acc)

\* the loop of extract_and_convert_thumbnail: the base64 text collected
RECURSIVE CollectBase64(_, _, _)
CollectBase64(lines, inside, acc) ==
    IF lines = <<>> THEN acc
    ELSE LET line == Head(lines)
             begin == Contains(line, ThumbBegin)
         IN  IF ~begin /\ Contains(line, ThumbEnd) THEN acc
             ELSE CollectBase64(Tail(lines), inside \/ begin,
                      IF ~begin /\ inside
                      THEN acc \o LStripChars(Strip(line), {59, 32})
                      ELSE acc)

\* whether b64decode and Image.open(...).convert().resize().save() succeed
CodecAccepts(base64_png) ==
    StartsWith(base64_png, PngMagic64)

\* the if base64_png: try ... except of extract_and_convert_thumbnail
ConvertThumbnail(base64_png) ==
    IF base64_png # <<>> /\ CodecAccepts(base64_png)
    THEN [kind |-> "converted", payload |-> base64_png]
    ELSE NoBmp

\* extract_and_convert_thumbnail(): the bitmap, or None
extract_and_convert_thumbnail(lines) ==
    ConvertThumbnail(CollectBase64(lines, FALSE, <<>>))

\* generate_blank_bmp(): the white 80x60 bitmap
generate_blank_bmp ==
    [kind |-> "blank", payload |-> <<>>]

\* bytes of a BMP file of 80x60 RGB pixels: 54 of header, 80*60*3 of pixels
BmpSize == 14454

\* The bytes of a bitmap inside a file: one element standing for the BmpSize
\* bytes of the BMP file (-1: the blank bitmap, -2: a converted thumbnail).
BmpBytes(b) ==
    IF b.kind = "blank" THEN <<0 - 1>> ELSE <<0 - 2>>

\* len() of file content: a bitmap element counts for its BmpSize bytes
ByteLen(f) ==
    Len(f) + (BmpSize - 1) * Cardinality({i \in 1..Len(f) : f[i] < 0})

(***************************************************************************)
(* struct.pack and str.encode('latin-1').                                  *)
(***************************************************************************)
\* the w little-endian bytes of u, 0 <= u < 256^w
RECURSIVE LittleEndian(_, _)
LittleEndian(u, w) ==
    IF w = 0 THEN <<>> ELSE <<u % 256>> \o LittleEndian(u \div 256, w - 1)

\* struct.pack("<i", n) (w = 4) and struct.pack("<h", n) (w = 2): two's
\* complement, struct.error when n does not fit
PackInt(n, w) ==
    LET half == IF w = 2 THEN 32768 ELSE 2147483647
        inRange == IF w = 2 THEN n >= 0 - half /\ n < half
                   ELSE n >= (0 - half) - 1 /\ n <= half
    IN  IF ~inRange THEN [raised |-> TRUE, bytes |-> <<>>]
        ELSE IF n >= 0 THEN [raised |-> FALSE, bytes |-> LittleEndian(n, w)]
        ELSE IF w = 2 THEN [raised |-> FALSE, bytes |-> LittleEndian(n + 65536, 2)]
        ELSE [raised |-> FALSE,
              bytes |-> LittleEndian((n + half) + 1, 3)
                        \o <<128 + (((n + half) + 1) \div 16777216)>>]

\* struct.pack of a list of fields, each <<value, width>>, without padding
RECURSIVE Pack(_)

PackCons(h, t) ==
    [raised |-> h.raised \/ t.raised, bytes |-> h.bytes \o t.bytes]

Pack(fields) ==
    IF fields = <<>> THEN [raised |-> FALSE, bytes |-> <<>>]
    ELSE PackCons(PackInt(Head(fields)[1], Head(fields)[2]), Pack(Tail(fields)))

\* EncodeLatin1 with errors='replace': '?' for a code point above 255
EncodeLatin1Replace(text) ==
    [raised |-> FALSE,
     bytes |-> [i \in 1..Len(text) |-> IF text[i] > 255 THEN 63 ELSE text[i]]]

\* text.encode('latin-1'): one byte per character, UnicodeEncodeError when a
\* code point is above 255
EncodeLatin1(text) ==
    IF \E i \in 1..Len(text) : text[i] > 255
    THEN [raised |-> TRUE, bytes |-> <<>>]
    ELSE [raised |-> FALSE, bytes |-> text]

Max(a, b) ==
    IF a > b THEN a ELSE b

\* struct.pack("<4i", 0, 58, 14512, 14512)
FixedGroup ==
    Pack(<< <<0, 4>>, <<58, 4>>, <<14512, 4>>, <<14512, 4>> >>)

\* PrintGroup with the extruder flag packed as a 4-byte integer ("<iiii")
PrintGroupFlagAsInt(v, m) ==
    IF v = "single"
    THEN Pack(<< <<Max(m.print_time, 1), 4>>, <<m.filament_usage, 4>>,
                 <<m.filament_usage, 4>>, <<0, 4>> >>)
    ELSE Pack(<< <<Max(m.print_time, 1), 4>>, <<m.filament_usage, 4>>,
                 <<m.filament_usage_left, 4>>, <<m.multi_extruder_type, 4>> >>)

\* struct.pack("<iiih", ...) of the variant
PrintGroup(v, m) ==
    IF v = "single"
    THEN Pack(<< <<Max(m.print_time, 1), 4>>, <<m.filament_usage, 4>>,
                 <<m.filament_usage, 4>>, <<0, 2>> >>)
    ELSE Pack(<< <<Max(m.print_time, 1), 4>>, <<m.filament_usage, 4>>,
                 <<m.filament_usage_left, 4>>, <<m.multi_extruder_type, 2>> >>)

\* struct.pack("<8h", ...) of the variant
SettingsGroup(v, m) ==
    Pack(<< <<m.layer_height, 2>>, <<0, 2>>, <<2, 2>>, <<m.print_speed, 2>>,
            <<m.bed_temp, 2>>, <<m.print_temp, 2>>,
            <<IF v = "single" THEN 0 ELSE m.print_temp_left, 2>>, <<1, 2>> >>)

\* buff of encode_gx from its packed parts
Assemble(g1, g2, g3, b, gcode_bytes) ==
    IF gcode_bytes.raised \/ g1.raised \/ g2.raised \/ g3.raised
    THEN [raised |-> TRUE, data |-> <<>>]
    ELSE [raised |-> FALSE,
          data |-> Signature \o g1.bytes \o g2.bytes \o g3.bytes
                   \o BmpBytes(b) \o gcode_bytes.bytes]

\* encode_gx(): [raised, data]; data is <<>> for the None of a missing
\* G-code or bitmap (gcode_loaded: self.gcode is not None)
encode_gx(v, loaded, lines, b, m) ==
    IF ~loaded \/ b.kind = "none" THEN [raised |-> FALSE, data |-> <<>>]
    ELSE Assemble(FixedGroup, PrintGroup(v, m), SettingsGroup(v, m), b,
                  EncodeLatin1(Join(lines)))

(***************************************************************************)
(* The input documents: the bytes of the file at gcode_path.               *)
(***************************************************************************)
\* 'G1'
L_G1 ==
    <<71,49>>
\* ' ; Executable_black_start'
L_MarkerIndented ==
    <<32>> \o ExecutableStart
\* '; filament used [mm] = 1234.5'
L_Fil1 ==
    FilamentPrefix \o <<32,49,50,51,52,46,53>>
\* '; filament used [mm] = 1234.5, 678.9'
L_Fil2 ==
    FilamentPrefix \o <<32,49,50,51,52,46,53,44,32,54,55,56,46,57>>
\* '; filament used [mm] = 12.7'
L_Fil1b ==
    FilamentPrefix \o <<32,49,50,46,55>>
\* '; estimated printing time (normal mode) = 1h 2m 3s'
L_Time ==
    TimePrefix \o <<32,49,104,32,50,109,32,51,115>>
\* '; layer_height = 0.2'
L_Layer ==
    LayerPrefix \o <<32,48,46,50>>
\* '; layer_height = x'
L_LayerBad ==
    LayerPrefix \o <<32,120>>
\* '; machine_max_speed_x = 500'
L_Speed ==
    SpeedPrefix \o <<32,53,48,48>>
\* '; first_layer_bed_temperature = 60'
L_Bed ==
    BedPrefix \o <<32,54,48>>
\* '; first_layer_bed_temperature = 40000'
L_BedBig ==
    BedPrefix \o <<32,52,48,48,48,48>>
\* '; nozzle_temperature = 220'
L_Noz1 ==
    NozzlePrefix \o <<32,50,50,48>>
\* '; nozzle_temperature = 220,215'
L_Noz2 ==
    NozzlePrefix \o <<32,50,50,48,44,50,49,53>>
\* '; thumbnail begin 80x60 8'
L_Begin ==
    <<59,32>> \o ThumbBegin \o <<32,56,48,120,54,48,32,56>>
\* '; thumbnail end'
L_End ==
    <<59,32>> \o ThumbEnd
\* '; iVBO'
L_Png ==
    <<59,32>> \o PngMagic64
\* '; AAAA'
L_Junk ==
    <<59,32,65,65,65,65>>

ToolPool ==
    {T0Prefix, L_G1, ExecutableStart, L_MarkerIndented}

MetaPool ==
    {L_Fil1, L_Fil2, L_Fil1b, L_Time, L_Layer, L_LayerBad, L_Speed, L_Bed,
     L_BedBig, L_Noz1, L_Noz2}

ThumbPool ==
    {L_Begin, L_End, L_Png, L_Junk, L_G1}

\* 'A', LF, CR, U+00E9, U+0100, U+20AC in UTF-8, and two malformed bytes
ByteUnits ==
    {<<65>>, <<10>>, <<13>>, <<195,169>>, <<196,128>>, <<226,130,172>>,
     <<255>>, <<195>>}

SeqsUpTo(S, n) ==
    UNION {[1..k -> S] : k \in 0..n}

\* the file of the given lines, each ended by LF (the last one only if finalNL)
FileOf(lines, finalNL) ==
    LET all == Join([i \in 1..Len(lines) |-> lines[i] \o <<10>>])
    IN  IF finalNL \/ lines = <<>> THEN all ELSE SubSeq(all, 1, Len(all) - 1)

ToolDocs ==
    {FileOf([i \in 1..k |-> L_G1] \o ls, nl) :
        k \in 0..MaxPad, ls \in SeqsUpTo(ToolPool, MaxToolLines), nl \in BOOLEAN}

MetaDocs ==
    {FileOf(ls, TRUE) : ls \in SeqsUpTo(MetaPool, MaxMetaLines)}

ThumbDocs ==
    {FileOf(ls, TRUE) : ls \in SeqsUpTo(ThumbPool, MaxThumbLines)}

ByteDocs ==
    {Join(us) : us \in SeqsUpTo(ByteUnits, MaxUnits)}

Docs ==
    ToolDocs \cup MetaDocs \cup ThumbDocs \cup ByteDocs

(***************************************************************************)
(* The run of the script.                                                  *)
(***************************************************************************)
VARIABLES
    variant,     \* "single": Orca_Gcode_to_GX.py, "dual": ..._DualExt.py
    orig,        \* the bytes at gcode_path when the run starts
    readable,    \* whether open(gcode_path, "r") succeeds
    fs_src,      \* the bytes at gcode_path
    tmp_exists,  \* whether gcode_path + ".tmp" exists
    fs_tmp,      \* the bytes at gcode_path + ".tmp"
    pc,          \* where the run is
    err,         \* the step that raised ("" while none has)
    gcode_loaded,\* self.gcode is not None
    gcode,       \* self.gcode
    meta,        \* the numeric attributes of the writer
    bmp,         \* self.bmp
    gx_data      \* gx_data of save_gx (<<>>: None or not yet assigned)

vars ==
    <<variant, orig, readable, fs_src, tmp_exists, fs_tmp, pc, err, gcode_loaded, gcode,
      meta, bmp, gx_data>>

Init ==
    /\ variant \in {"single", "dual"}
    /\ orig \in Docs
    /\ readable \in BOOLEAN
    /\ fs_src = orig
    /\ tmp_exists = FALSE
    /\ fs_tmp = <<>>
    /\ pc = "load"
    /\ err = ""
    /\ gcode_loaded = FALSE
    /\ gcode = <<>>
    /\ meta = IF variant = "single" THEN InitSingle ELSE InitDual
    /\ bmp = NoBmp
    /\ gx_data = <<>>

\* load_gcode(): the file is read and normalized, or open() raises and the
\* except branch leaves the empty document
load_gcode ==
    /\ pc = "load"
    /\ gcode' = IF ~readable THEN <<>>
                 ELSE IF variant = "single" THEN NormalizeSingle(readlines(fs_src))
                 ELSE NormalizeDual(readlines(fs_src))
    /\ gcode_loaded' = TRUE
    /\ pc' = "metadata"
    /\ UNCHANGED <<variant, orig, readable, fs_src, tmp_exists, fs_tmp, err, meta, bmp, gx_data>>

\* extract_metadata(): a ValueError ends the run in __init__
extract_metadata ==
    /\ pc = "metadata"
    /\ LET r == ScanMetadata(variant, meta, gcode)
       IN  IF r.raised
           THEN /\ pc' = "failed"
                /\ err' = "metadata"
                /\ meta' = meta
           ELSE /\ pc' = "thumbnail"
                /\ err' = err
                /\ meta' = r.m
    /\ UNCHANGED <<variant, orig, readable, fs_src, tmp_exists, fs_tmp, gcode_loaded, gcode,
                   bmp, gx_data>>

\* a or b, for a bitmap a or None
Or(a, b) ==
    IF a.kind = "none" THEN b ELSE a

\* self.bmp = self.extract_and_convert_thumbnail() or self.generate_blank_bmp()
set_bmp ==
    /\ pc = "thumbnail"
    /\ bmp' = Or(extract_and_convert_thumbnail(gcode), generate_blank_bmp)
    /\ pc' = "save"
    /\ UNCHANGED <<variant, orig, readable, fs_src, tmp_exists, fs_tmp, err, gcode_loaded,
                   gcode, meta, gx_data>>

\* save_gx(): gx_data = self.encode_gx(); if gx_data: ... else: print(...)
save_gx_encode ==
    /\ pc = "save"
    /\ LET r == encode_gx(variant, gcode_loaded, gcode, bmp, meta)
       IN  IF r.raised
           THEN /\ pc' = "failed"
                /\ err' = "encode"
                /\ gx_data' = <<>>
           ELSE /\ pc' = IF r.data # <<>> THEN "open" ELSE "done"
                /\ err' = err
                /\ gx_data' = r.data
    /\ UNCHANGED <<variant, orig, readable, fs_src, tmp_exists, fs_tmp, gcode_loaded, gcode,
                   meta, bmp>>

\* open(temp_path, "wb"): the file is created empty, or open raises OSError
save_gx_open ==
    /\ pc = "open"
    /\ \E ok \in BOOLEAN :
          IF ok
          THEN /\ tmp_exists' = TRUE
               /\ fs_tmp' = <<>>
               /\ pc' = "write"
               /\ err' = err
          ELSE /\ pc' = "failed"
               /\ err' = "open"
               /\ UNCHANGED <<tmp_exists, fs_tmp>>
    /\ UNCHANGED <<variant, orig, readable, fs_src, gcode_loaded, gcode, meta, bmp, gx_data>>

\* what a write of data that fails part way may leave in the file
PartialWrites(data) ==
    {SubSeq(data, 1, k) : k \in {0, Len(data) \div 2}}

\* f.write(gx_data) and the close of the with block: all of it is written, or
\* the write raises OSError with part of it in the file
save_gx_write ==
    /\ pc = "write"
    /\ \/ /\ fs_tmp' = gx_data
          /\ pc' = "move"
          /\ err' = err
       \/ /\ fs_tmp' \in PartialWrites(gx_data)
          /\ pc' = "failed"
          /\ err' = "write"
    /\ UNCHANGED <<variant, orig, readable, fs_src, tmp_exists, gcode_loaded, gcode, meta,
                   bmp, gx_data>>

\* shutil.move(temp_path, self.gcode_path): os.rename replaces the file at
\* gcode_path in one step, ...
move_rename ==
    /\ pc = "move"
    /\ fs_src' = fs_tmp
    /\ tmp_exists' = FALSE
    /\ fs_tmp' = <<>>
    /\ pc' = "done"
    /\ UNCHANGED <<variant, orig, readable, err, gcode_loaded, gcode, meta, bmp, gx_data>>

\* ... or os.rename raises OSError (on Windows whenever the destination
\* exists) and shutil.move copies instead: copy2 opens gcode_path for writing,
\* which truncates it, or that open raises
move_copy_open ==
    /\ pc = "move"
    /\ \E ok \in BOOLEAN :
          IF ok
          THEN /\ fs_src' = <<>>
               /\ pc' = "copy"
               /\ err' = err
          ELSE /\ pc' = "failed"
               /\ err' = "move"
               /\ fs_src' = fs_src
    /\ UNCHANGED <<variant, orig, readable, tmp_exists, fs_tmp, gcode_loaded, gcode, meta,
                   bmp, gx_data>>

\* copy2 writes the content of the temporary file to gcode_path, or fails
\* part way
move_copy_data ==
    /\ pc = "copy"
    /\ \/ /\ fs_src' = fs_tmp
          /\ pc' = "unlink"
          /\ err' = err
       \/ /\ fs_src' \in PartialWrites(fs_tmp)
          /\ pc' = "failed"
          /\ err' = "move"
    /\ UNCHANGED <<variant, orig, readable, tmp_exists, fs_tmp, gcode_loaded, gcode, meta,
                   bmp, gx_data>>

\* os.unlink(temp_path), the last step of the copying shutil.move
move_unlink ==
    /\ pc = "unlink"
    /\ tmp_exists' = FALSE
    /\ fs_tmp' = <<>>
    /\ pc' = "done"
    /\ UNCHANGED <<variant, orig, readable, fs_src, err, gcode_loaded, gcode, meta, bmp,
                   gx_data>>

Next ==
    \/ load_gcode
    \/ extract_metadata
    \/ set_bmp
    \/ save_gx_encode
    \/ save_gx_open
    \/ save_gx_write
    \/ move_rename
    \/ move_copy_open
    \/ move_copy_data
    \/ move_unlink

Spec ==
    Init /\ [][Next]_vars

(***************************************************************************)
(* What the claims speak of.                                               *)
(***************************************************************************)
\* bytes in front of the bitmap: 12 of signature, 16 + 14 + 16 of packed
\* integers (the second integer of the header holds this number)
GxHeaderLen == 58

\* encode_gx has returned bytes
Encoded ==
    gx_data # <<>>

\* extract_metadata has run (to its end, or to a ValueError)
MetadataScanned ==
    pc \notin {"load", "metadata"}

\* __init__ has returned: the writer is constructed
Constructed ==
    pc \notin {"load", "metadata", "thumbnail"} /\ err # "metadata"

\* encode_gx has been called (and has returned or raised)
EncodeCalled ==
    Constructed /\ pc # "save"

\* the run is over
Ended ==
    pc \in {"done", "failed"}

\* the places k of gx_data where the G-code body starts: the GxHeaderLen
\* bytes of header and the bytes of the bitmap are the first k elements
BodyStart ==
    {k \in 1..Len(gx_data) :
        /\ gx_data[k] < 0
        /\ ByteLen(SubSeq(gx_data, 1, k)) = GxHeaderLen + ByteLen(BmpBytes(bmp))}

\* body is src with ins put in at one place and nothing else changed
OnlyInserted(body, src, ins) ==
    /\ Len(body) = Len(src) + Len(ins)
    /\ \E k \in 0..Len(src) :
          body = SubSeq(src, 1, k) \o ins \o SubSeq(src, k + 1, Len(src))

\* the text load_gcode may insert, as bytes
Inserts(v) ==
    IF v = "single" THEN {<<>>, T0Inserted}
    ELSE {<<>>, T0InsertedDual \o T1InsertedDual}

\* the G-code body of gx_data is src with only the tool-select text added
BodyIsSourcePlusInserts(src) ==
    \E k \in BodyStart, ins \in Inserts(variant) :
        OnlyInserted(SubSeq(gx_data, k + 1, Len(gx_data)), src, ins)

\* the value of little-endian two's complement bytes (2 or 4 of them)
UnpackInt(b) ==
    IF Len(b) = 2
    THEN (IF b[2] >= 128 THEN b[2] - 256 ELSE b[2]) * 256 + b[1]
    ELSE (IF b[4] >= 128 THEN b[4] - 256 ELSE b[4]) * 16777216
             + b[3] * 65536 + b[2] * 256 + b[1]

\* the least and the greatest element of a non-empty set of numbers
MinOf(S) ==
    CHOOSE x \in S : \A y \in S : x <= y

MaxOf(S) ==
    CHOOSE x \in S : \A y \in S : x >= y

(***************************************************************************)
(* C1: the length of the GX byte string.                                   *)
(***************************************************************************)
\* C1 as stated: whenever encode_gx has returned bytes, in either variant,
\* their length is 23 + 12 + len(thumbnail bytes) + len(G-code bytes).
C1_Original ==
    Encoded => ByteLen(gx_data) = 23 + 12 + ByteLen(BmpBytes(bmp)) + Len(Join(gcode))

\* C1 amended: whenever encode_gx has returned bytes, in either variant, their
\* length is 12 (signature) + 46 (the packed integers: 4*4, 3*4 + 2, 8*2)
\* + len(thumbnail bytes) + len(G-code bytes).
C1_OutputLength ==
    Encoded => ByteLen(gx_data) = 12 + 46 + ByteLen(BmpBytes(bmp)) + Len(Join(gcode))

C1_Witness ==
    /\ Encoded
    /\ variant = "dual"
    /\ bmp.kind = "converted"
    /\ Len(gcode) >= 3

(***************************************************************************)
(* C2: the G-code body of the output against the source.                   *)
(***************************************************************************)
\* C2 as stated: for a source file that is read and encoded, the bytes after
\* the header and the thumbnail are the bytes of the source with only the
\* inserted tool-select text added, every other byte unchanged.
C2_Original ==
    (readable /\ Encoded) => BodyIsSourcePlusInserts(orig)

\* the source is ASCII text whose lines end in LF
PlainSource ==
    \A i \in 1..Len(orig) : orig[i] < 128 /\ orig[i] # 13

\* the characters of the source as the program reads it: one per well-formed
\* UTF-8 sequence, malformed bytes dropped, CR LF and CR read as LF
SourceText ==
    UniversalNewlines(Utf8Decode(orig))

\* C2 amended: for a source file that is read and encoded, the bytes after the
\* header and the thumbnail are, one byte per character, the text of the
\* source as read (UTF-8 decoded, malformed bytes dropped, CR LF and CR turned
\* into LF) with only the inserted tool-select text added; for a source of
\* ASCII bytes without CR they are the source bytes with only that text added.
C2_RoundTrip ==
    (readable /\ Encoded) =>
        /\ BodyIsSourcePlusInserts(SourceText)
        /\ PlainSource => BodyIsSourcePlusInserts(orig)

C2_Witness ==
    /\ readable
    /\ Encoded
    /\ \E i \in 1..Len(orig) : orig[i] = 13
    /\ \E i \in 1..Len(orig) : orig[i] = 195
    /\ ~BodyIsSourcePlusInserts(orig)

(***************************************************************************)
(* C3: the secondary filament field of the single-extruder header.         *)
(***************************************************************************)
\* C3: in the single-extruder variant, whenever encode_gx has returned bytes,
\* the third 4-byte integer of the per-print group (bytes 37..40 of the
\* output) is 0 and the 2-byte extruder flag after it (bytes 41..42) is 0.
C3_SecondaryZero ==
    (variant = "single" /\ Encoded) =>
        /\ UnpackInt(SubSeq(gx_data, 37, 40)) = 0
        /\ UnpackInt(SubSeq(gx_data, 41, 42)) = 0

(***************************************************************************)
(* C4: the tool header of the single-extruder variant.                     *)
(***************************************************************************)
\* C4: in the single-extruder variant, after load_gcode of a readable file:
\* if none of its first 10 lines starts with 'T0', the serialized document
\* has one line more, its first line is the tool-select line and the lines
\* after it are the original lines; otherwise the document is unchanged.
C4_T0NewFirstLine ==
    (variant = "single" /\ readable /\ pc # "load") =>
        LET src == readlines(orig)
            out == SplitLines(Join(gcode))
        IN  IF \E i \in 1..Len(src) : i <= 10 /\ StartsWith(src[i], T0Prefix)
            THEN out = src
            ELSE /\ Len(out) = Len(src) + 1
                 /\ StartsWith(out[1], T0Prefix)
                 /\ \A i \in 1..Len(src) : out[i + 1] = src[i]

(***************************************************************************)
(* C5: the tool header of the dual-extruder variant.                       *)
(***************************************************************************)
\* the line is the marker comment, white space around it aside
IsMarkerLine(l) ==
    \E i \in 1..Len(l) :
        /\ i + Len(ExecutableStart) - 1 <= Len(l)
        /\ SubSeq(l, i, i + Len(ExecutableStart) - 1) = ExecutableStart
        /\ \A j \in 1..Len(l) :
             (j < i \/ j >= i + Len(ExecutableStart)) => IsSpace(l[j])

\* C5: in the dual-extruder variant, after load_gcode of a readable file: if
\* some line is the executable-start marker, the document has exactly two
\* lines more, a 'T0' line and then a 'T1' line right after the first marker
\* line, all other lines unchanged and in their order (a later marker line
\* gets nothing); if no line is the marker, the document is unchanged.
C5_DualInsertion ==
    (variant = "dual" /\ readable /\ pc # "load") =>
        LET src == readlines(orig)
            marks == {i \in 1..Len(src) : IsMarkerLine(src[i])}
        IN  IF marks = {} THEN gcode = src
            ELSE /\ Len(gcode) = Len(src) + 2
                 /\ \A i \in 1..MinOf(marks) : gcode[i] = src[i]
                 /\ StartsWith(gcode[MinOf(marks) + 1], <<84, 48>>)
                 /\ StartsWith(gcode[MinOf(marks) + 2], <<84, 49>>)
                 /\ gcode[MinOf(marks) + 1][Len(gcode[MinOf(marks) + 1])] = 10
                 /\ gcode[MinOf(marks) + 2][Len(gcode[MinOf(marks) + 2])] = 10
                 /\ \A i \in (MinOf(marks) + 1)..Len(src) : gcode[i + 2] = src[i]

C5_Witness ==
    /\ variant = "dual"
    /\ readable
    /\ pc # "load"
    /\ Cardinality({i \in 1..Len(gcode) : IsMarkerLine(gcode[i])}) = 2
    /\ \E i \in 2..(Len(gcode) - 1) :
          /\ StartsWith(gcode[i], <<84, 48>>)
          /\ IsMarkerLine(gcode[i - 1])
          /\ ~IsMarkerLine(gcode[1])

(***************************************************************************)
(* C6: the filament rule of extract_metadata.                              *)
(***************************************************************************)
\* the comma-separated items of the value of a metadata line
ItemsOf(line) ==
    SplitOn(ValueOf(line), 44)

\* the value of the line is a comma-separated list of numbers
IsNumberList(line) ==
    \A i \in 1..Len(ItemsOf(line)) : ParseFloat(ItemsOf(line)[i]).ok

\* the lines of the document that carry filament usage
FilamentLines ==
    {i \in 1..Len(gcode) : StartsWith(gcode[i], FilamentPrefix)}

\* no other metadata line is in the document, and every filament line holds
\* a list of numbers
OnlyFilamentMetadata ==
    \A i \in 1..Len(gcode) :
        /\ \A p \in {TimePrefix, LayerPrefix, SpeedPrefix, BedPrefix, NozzlePrefix} :
               ~StartsWith(gcode[i], p)
        /\ i \in FilamentLines => IsNumberList(gcode[i])

\* C6: in both variants, once extract_metadata has processed the filament
\* lines of a document (each a list of numbers), filament_usage is the first
\* value of the last such line truncated to an integer, and the secondary
\* usage is its second value truncated if it has one, otherwise 0, whatever
\* the filament lines before it held.
C6_FilamentRule ==
    (readable /\ MetadataScanned /\ OnlyFilamentMetadata /\ FilamentLines # {}) =>
        LET items == ItemsOf(gcode[MaxOf(FilamentLines)])
        IN  /\ err # "metadata"
            /\ meta.filament_usage = IntOfFloat(ParseFloat(items[1]), 1)
            /\ "filament_usage_left" \in DOMAIN meta
            /\ meta.filament_usage_left =
                   IF Len(items) > 1 THEN IntOfFloat(ParseFloat(items[2]), 1) ELSE 0

(***************************************************************************)
(* C7: the content at the source path.                                     *)
(***************************************************************************)
\* C7: in every state of every run, the content at the source path is the
\* complete original file or the complete assembled GX byte string, and it
\* is the original when the run has failed.
C7_SourceNeverCorrupted ==
    /\ fs_src = orig \/ (Encoded /\ fs_src = gx_data)
    /\ pc = "failed" => fs_src = orig

(***************************************************************************)
(* C8: the thumbnail and its fallback.                                     *)
(***************************************************************************)
\* the lines holding the begin marker, and those holding the end marker
BeginLines ==
    {i \in 1..Len(gcode) : Contains(gcode[i], ThumbBegin)}

EndLines ==
    {i \in 1..Len(gcode) : Contains(gcode[i], ThumbEnd)}

\* the base64 text of the lines of gcode with index in idx, in their order:
\* each without white space around it and without leading ';' and ' '
PayloadOf(idx) ==
    Join([i \in 1..Len(gcode) |->
             IF i \in idx THEN LStripChars(Strip(gcode[i]), {59, 32}) ELSE <<>>])

\* the bitmap made of a payload: its conversion, or the blank bitmap when the
\* payload is empty or the codec refuses it
BitmapOf(payload) ==
    IF payload # <<>> /\ CodecAccepts(payload)
    THEN [kind |-> "converted", payload |-> payload]
    ELSE [kind |-> "blank", payload |-> <<>>]

\* C8 as stated: once the writer is constructed there is a bitmap; it is the
\* blank one when there is no begin marker, when an end marker comes before
\* any payload line, or when decoding fails, and otherwise the conversion of
\* exactly the lines between the first begin line and the first end line.
C8_Original ==
    Constructed =>
        /\ bmp.kind # "none"
        /\ bmp = IF BeginLines = {} THEN BitmapOf(<<>>)
                 ELSE IF EndLines = {}
                 THEN BitmapOf(PayloadOf({i \in 1..Len(gcode) : i > MinOf(BeginLines)}))
                 ELSE BitmapOf(PayloadOf({i \in 1..Len(gcode) :
                          i > MinOf(BeginLines) /\ i < MinOf(EndLines)}))

\* where the scan stops: the first line that holds the end marker and not the
\* begin marker (past the last line if there is none)
StopLine ==
    IF EndLines \ BeginLines = {} THEN Len(gcode) + 1
    ELSE MinOf(EndLines \ BeginLines)

\* C8 amended: once the writer is constructed there is a bitmap; it is the
\* blank one when there is no begin marker, when an end marker comes before
\* any payload line, or when decoding fails, and otherwise the conversion of
\* exactly the lines after the first begin line and before the first end line
\* (to the end of the document if no end line comes), further lines that hold
\* the begin marker left out.
C8_ThumbnailFallback ==
    Constructed =>
        /\ bmp.kind # "none"
        /\ bmp = BitmapOf(PayloadOf({i \in 1..Len(gcode) :
                     /\ i < StopLine
                     /\ i \notin BeginLines
                     /\ \E b \in BeginLines : b < i}))

C8_Witness ==
    /\ Constructed
    /\ bmp.kind = "converted"
    /\ Cardinality(BeginLines) = 2
    /\ EndLines # {}

(***************************************************************************)
(* C9: the temporary file.                                                 *)
(***************************************************************************)
\* C9: once a run of save_gx has ended, with success or with an I/O error,
\* no temporary file remains.
C9_NoTempFileLeft ==
    Ended => ~tmp_exists

(***************************************************************************)
(* C10: characters that do not fit in one byte.                            *)
(***************************************************************************)
\* the G-code body of gx_data is text
BodyIs(text) ==
    \E k \in BodyStart : SubSeq(gx_data, k + 1, Len(gx_data)) = text

\* C10: for a readable document whose header fields can be packed, the call
\* of encode_gx returns a GX byte string whose G-code body is the document
\* without its characters above 255, every other character as one byte.
C10_DroppedNotFatal ==
    (/\ readable
     /\ EncodeCalled
     /\ ~PrintGroup(variant, meta).raised
     /\ ~SettingsGroup(variant, meta).raised) =>
        /\ Encoded
        /\ BodyIs(SelectSeq(Join(gcode), LAMBDA c : c <= 255))

====
